---- MODULE Spec2Model ----
(***************************************************************************)
(* Model of the Carver Feeds Skill bootstrap scripts.                      *)
(*                                                                         *)
(* scripts/auto_init.py (the provisioner) is modelled as a state machine   *)
(* over the file system (the isolated environment, the packages installed  *)
(* in it, the credential files) with one action per blocking step of       *)
(* main(): every subprocess call together with the code that handles its   *)
(* outcome.  Subprocess outcomes are the environment's choice.             *)
(*                                                                         *)
(* Text is modelled as sequences of one-character strings, except that the *)
(* literal CARVER_API_KEY is the single token "K" and the placeholder      *)
(* your_api_key_here is the single token "P"; " " stands for any white     *)
(* space (the line terminator included).  Paths are sequences of path      *)
(* components.  Printed lines are sequences of strings whose concatenation *)
(* is the text of the line.                                                *)
(***************************************************************************)
EXTENDS Integers, Sequences, FiniteSets, TLC

VARIABLES
    venvAt,       \* venv path -> "absent" | "partial" | "ready"
    pkgsAt,       \* venv path -> set of packages importable in that environment
    envFileAt,    \* credential-file path -> file
    pc,           \* position of the provisioner in main()
    user_cwd,     \* main: user_cwd
    python_exe,   \* main: python_exe (<<>> before step 1)
    has_key,      \* main: has_key
    api_key,      \* main: api_key (<<>> is None)
    stdout,       \* lines printed by the run, in order
    exit_code,    \* status passed to sys.exit, -1 while running
    unhandled,    \* TRUE when the run ended by an exception nobody caught
    steps,        \* steps of main() executed by the run, in order
    spawned,      \* subprocess calls made by the run, in order, with outcome
    fsops,        \* file-system accesses made by the run (and its children)
    atStart,      \* the environment and its packages when the run started
    child,        \* what the verification subprocess of the run did
    venvCreations,\* times an environment directory came into existence
    envIn,        \* check_env_file under test: the file
    envOut,       \* check_env_file under test: the result
    pyIn,         \* find_compatible_python under test: the host's interpreters
    pyOut,        \* find_compatible_python under test: the result
    pyBuilt,      \* the interpreter ensure_venv ran to construct the environment
    lastRun,      \* what the caller read from the run before: status, directory
    is_venv,      \* setup_environment: is_venv() of the process
    environ,      \* setup_environment: os.getenv("CARVER_API_KEY")
    keyOut,       \* check_api_key under test: the result
    expIn,        \* export_feed_entries under test: the arguments and the SDK
    expOut        \* export_feed_entries under test: the result and the files

runVars == <<pc, user_cwd, python_exe, has_key, api_key, stdout, exit_code,
             unhandled, steps, spawned, fsops, atStart, child>>
fsVars == <<venvAt, pkgsAt, envFileAt, venvCreations>>
envVars == <<envIn, envOut>>
pyVars == <<pyIn, pyOut, pyBuilt>>
callerVars == <<lastRun>>
setupVars == <<is_venv, environ, keyOut>>
exportVars == <<expIn, expOut>>
vars == <<venvAt, pkgsAt, envFileAt, pc, user_cwd, python_exe, has_key, api_key,
          stdout, exit_code, unhandled, steps, spawned, fsops, atStart, child,
          venvCreations, envIn, envOut, pyIn, pyOut, pyBuilt, lastRun,
          is_venv, environ, keyOut, expIn, expOut>>

----------------------------------------------------------------------------
(* Bounds of the model *)

\* most lines a credential file under test has
MaxLines == 2
\* most candidates of the interpreter list that are present on the host
MaxPresent == 2

----------------------------------------------------------------------------
(* Sequences and text *)

RECURSIVE SeqsUpTo(_, _)
SeqsUpTo(S, n) ==
    IF n = 0 THEN {<<>>}
    ELSE LET shorter == SeqsUpTo(S, n - 1)
         IN shorter \cup {Append(s, x) : s \in {t \in shorter : Len(t) = n - 1}, x \in S}

Last(s) == s[Len(s)]

IsWhite(c) == c = " "

\* str.lstrip / str.rstrip / str.strip
RECURSIVE LStrip(_)
LStrip(s) == IF s # <<>> /\ IsWhite(Head(s)) THEN LStrip(Tail(s)) ELSE s

RECURSIVE RStrip(_)
RStrip(s) == IF s # <<>> /\ IsWhite(Last(s)) THEN RStrip(SubSeq(s, 1, Len(s) - 1)) ELSE s

Strip(s) == RStrip(LStrip(s))

\* str.startswith
StartsWith(s, p) == Len(s) >= Len(p) /\ SubSeq(s, 1, Len(p)) = p

\* needle in haystack (substring)
Contains(hay, needle) ==
    \E i \in 1..(Len(hay) - Len(needle) + 1) : SubSeq(hay, i, i + Len(needle) - 1) = needle

\* line.split("=", 1)[1]: what follows the first "=" of the line
RECURSIVE AfterFirstEq(_)
AfterFirstEq(s) ==
    IF s = <<>> THEN <<>>
    ELSE IF Head(s) = "=" THEN Tail(s) ELSE AfterFirstEq(Tail(s))

\* str(n) for a natural number
RECURSIVE Digits(_)
Digits(n) ==
    LET d == <<"0", "1", "2", "3", "4", "5", "6", "7", "8", "9">>
    IN IF n < 10 THEN <<d[n + 1]>> ELSE Digits(n \div 10) \o <<d[(n % 10) + 1]>>

----------------------------------------------------------------------------
(* Paths *)

\* the tool install directory and a working directory distinct from it
T == <<"skill">>
W == <<"work">>
Dirs == {T, W}

NoArg == <<>>
\* sys.argv[1]: absent, an absolute directory, or the relative path "."
Argv1 == {NoArg, <<".">>} \cup Dirs

Platform == "linux"

\* Path.resolve(): an absolute path stays, a relative one is taken from the
\* process's current directory
Resolve(p, procCwd) == IF p = <<".">> THEN procCwd ELSE p

get_skill_dir == T

get_user_cwd(argv1, procCwd) ==
    IF argv1 # NoArg THEN Resolve(argv1, procCwd) ELSE procCwd

get_venv_path == get_skill_dir \o <<".venv">>

get_venv_python(venv_path) ==
    IF Platform = "win32" THEN venv_path \o <<"Scripts", "python.exe">>
    ELSE venv_path \o <<"bin", "python">>

env_file_of(cwd) == cwd \o <<".env">>

VenvPaths == {d \o <<".venv">> : d \in Dirs}
EnvPaths == {d \o <<".env">> : d \in Dirs}

\* the environment an interpreter path lies in
VenvOf(py) == SubSeq(py, 1, 2)

----------------------------------------------------------------------------
(* The credential file: auto_init.check_env_file *)

KeyPrefix == <<"K", "=">>
Placeholder == <<"P">>

NoKey == [ok |-> FALSE, key |-> <<>>, raised |-> FALSE]
NotChecked == [ok |-> FALSE, key |-> <<"-">>, raised |-> FALSE]

MissingFile == [kind |-> "missing", lines |-> <<>>]
\* a .env that exists and cannot be opened for reading (a directory)
DirFile == [kind |-> "dir", lines |-> <<>>]
TextFile(lines) == [kind |-> "file", lines |-> lines]

\* line 197: line.strip().startswith("CARVER_API_KEY=")
line_matches(line) == StartsWith(Strip(line), KeyPrefix)

\* faulty variant: the line is split at its last "=" (rsplit)
line_value_AfterLastEq(line) ==
    LET eqs == {i \in DOMAIN line : line[i] = "="}
    IN IF eqs = {} THEN <<>>
       ELSE Strip(SubSeq(line, (CHOOSE i \in eqs : \A j \in eqs : j <= i) + 1, Len(line)))

\* line 198: line.split("=", 1)[1].strip()
line_value(line) == Strip(AfterFirstEq(line))

\* faulty variant: the placeholder is taken for a key
key_configured_NoPlaceholder(key) == key # <<>>

\* line 199: key and key != "your_api_key_here"
key_configured(key) == key # <<>> /\ key # Placeholder

\* faulty variant: only the first line of the file is looked at
scan_lines_FirstLineOnly(lines) ==
    IF lines # <<>> /\ line_matches(Head(lines)) /\ key_configured(line_value(Head(lines)))
    THEN [ok |-> TRUE, key |-> line_value(Head(lines)), raised |-> FALSE]
    ELSE NoKey

\* lines 196-202: the loop over the lines of the file
RECURSIVE scan_lines(_)
scan_lines(lines) ==
    IF lines = <<>> THEN NoKey
    ELSE IF line_matches(Head(lines)) /\ key_configured(line_value(Head(lines)))
         THEN [ok |-> TRUE, key |-> line_value(Head(lines)), raised |-> FALSE]
         ELSE scan_lines(Tail(lines))

\* faulty variant: the file is opened without the existence check
check_env_file_NoExistsCheck(f) ==
    IF f.kind \in {"missing", "dir"} THEN [ok |-> FALSE, key |-> <<>>, raised |-> TRUE]
    ELSE scan_lines(f.lines)

\* check_env_file(cwd), given the file at cwd/.env; raised: open() raised
check_env_file(f) ==
    IF f.kind = "missing" THEN NoKey
    ELSE IF f.kind = "dir" THEN [ok |-> FALSE, key |-> <<>>, raised |-> TRUE]
    ELSE scan_lines(f.lines)

\* the variable CARVER_API_KEY is not in the environment of the process
NoVar == <<"(unset)">>

\* setup_environment.py line 106: line.strip().startswith("CARVER_API_KEY=")
api_key_line(line) == StartsWith(Strip(line), KeyPrefix)

\* setup_environment.py lines 93-115: check_api_key(), given the variable of the environment and the
\* file at <cwd>/.env; raised: open() raised
check_api_key(env, f) ==
    IF env # NoVar /\ env # <<>> THEN [ok |-> TRUE, raised |-> FALSE]
    ELSE IF f.kind = "missing" THEN [ok |-> FALSE, raised |-> FALSE]
    ELSE IF f.kind = "dir" THEN [ok |-> FALSE, raised |-> TRUE]
    ELSE [ok |-> \E i \in DOMAIN f.lines : api_key_line(f.lines[i]), raised |-> FALSE]

\* lines a credential file is made of
L_valid == <<"K", "=", "x">>
L_validWs == <<" ", "K", "=", "x", "y", " ">>
L_placeholder == <<"K", "=", "P">>
L_placeholderWs == <<"K", "=", " ", "P", " ">>
L_emptyValue == <<"K", "=">>
L_comment == <<"#", "c">>
L_otherVar == <<"x", "=", "y">>
L_longerName == <<"K", "x", "=", "y">>
L_valueWithEq == <<"K", "=", "a", "=", "b">>
L_blank == <<" ">>
L_spaceBeforeEq == <<"K", " ", "=", "x">>
L_placeholderPlus == <<"K", "=", "P", "x">>

SampleLines ==
    {L_valid, L_validWs, L_placeholder, L_placeholderWs, L_emptyValue, L_comment,
     L_otherVar, L_longerName, L_valueWithEq, L_blank, L_spaceBeforeEq,
     L_placeholderPlus}

\* the credential files check_env_file is tested on
TestFiles == {MissingFile} \cup {TextFile(ls) : ls \in SeqsUpTo(SampleLines, MaxLines)}

\* the credential files the runs of the provisioner meet in the working directory
PlaceholderFile == TextFile(<<L_comment, L_placeholder>>)
ValidFile == TextFile(<<L_comment, L_validWs>>)
MixedFile == TextFile(<<L_placeholder, L_valid>>)
NoKeyFile == TextFile(<<L_otherVar>>)
WorkFiles == {MissingFile, DirFile, PlaceholderFile, ValidFile, MixedFile, NoKeyFile}
\* and in the tool directory
ToolFile == TextFile(<<<<"K", "=", "t">>>>)
ToolFiles == {MissingFile, ToolFile}

FilesAt(path) == IF path = env_file_of(T) THEN ToolFiles ELSE WorkFiles

----------------------------------------------------------------------------
(* The interpreter search: auto_init.find_compatible_python *)

\* lines 65-79: the candidates, in the order they are tried
Candidates ==
    <<"python3.12", "python3.11", "python3.10", "python3",
      "/usr/bin/python3.12", "/usr/bin/python3.11", "/usr/bin/python3.10",
      "/usr/local/bin/python3.12", "/usr/local/bin/python3.11",
      "/usr/local/bin/python3.10", "/opt/homebrew/bin/python3.12",
      "/opt/homebrew/bin/python3.11", "/opt/homebrew/bin/python3.10">>

\* line 92: the accepted minor versions
AcceptedMinors == {10, 11, 12}

\* What "<candidate> --version" does on the host: the executable is absent
\* (subprocess.run raises), the query outlives its 5 s, it exits non-zero, or
\* it exits 0 as the interpreter major.minor
Absent == [kind |-> "raise", major |-> 0, minor |-> 0]
Hangs == [kind |-> "timeout", major |-> 0, minor |-> 0]
Fails == [kind |-> "nonzero", major |-> 0, minor |-> 0]
Interp(major, minor) == [kind |-> "ok", major |-> major, minor |-> minor]
NoInterp == [kind |-> "none", major |-> 0, minor |-> 0]

PresentEntries ==
    {Hangs, Fails, Interp(3, 9), Interp(3, 10), Interp(3, 12), Interp(3, 13)}

\* the standard output of the version query: Python 3 writes "Python 3.m.p" and
\* a line end, Python 2 writes its version to the standard error
version_stdout(e) ==
    IF e.kind = "ok" /\ e.major = 3
    THEN <<"P", "y", "t", "h", "o", "n", " ", "3", ".">> \o Digits(e.minor)
         \o <<".", "1", "0", " ">>
    ELSE <<>>

\* line 92: any(f"Python 3.{minor}" in version_output for minor in [10, 11, 12])
version_accepted(version_output) ==
    \E minor \in AcceptedMinors :
        Contains(version_output,
                 <<"P", "y", "t", "h", "o", "n", " ", "3", ".">> \o Digits(minor))

NotFound == [found |-> FALSE, index |-> 0, python_path |-> "", version |-> <<>>]
NotRun == [found |-> FALSE, index |-> 0, python_path |-> "-", version |-> <<>>]

\* lines 82-88, 94: subprocess.run returned (it raised nothing)
query_returned(e) == e.kind \notin {"raise", "timeout"}

\* result.returncode
returncode(e) == IF e.kind = "ok" THEN 0 ELSE 1

\* faulty variant: any interpreter that answers the query is taken
candidate_selected_AnyVersion(e) == query_returned(e) /\ returncode(e) = 0

\* lines 83-95: one round of the loop; TRUE when the candidate is returned
candidate_selected(e) ==
    /\ query_returned(e)
    /\ returncode(e) = 0
    /\ version_accepted(Strip(version_stdout(e)))

\* lines 81-97: the loop, from candidate i on
RECURSIVE find_from(_, _)
find_from(host, i) ==
    IF i > Len(Candidates) THEN NotFound
    ELSE IF candidate_selected(host[i])
         THEN [found |-> TRUE, index |-> i, python_path |-> Candidates[i],
               version |-> Strip(version_stdout(host[i]))]
         ELSE find_from(host, i + 1)

find_compatible_python(host) == find_from(host, 1)

HostWith(f) == [i \in 1..Len(Candidates) |-> IF i \in DOMAIN f THEN f[i] ELSE Absent]

\* the sets of at most MaxPresent candidates that are present on a host
PresentSets == {X \in SUBSET (1..Len(Candidates)) : Cardinality(X) <= MaxPresent}

\* the hosts the runs of the provisioner meet
SampleHosts ==
    {HostWith(<<>>),
     HostWith(4 :> Interp(3, 13)),
     HostWith(4 :> Interp(3, 11)),
     HostWith(1 :> Fails @@ 3 :> Interp(3, 10) @@ 4 :> Interp(3, 12))}

----------------------------------------------------------------------------
(* The provisioner: auto_init.main, step by step *)

Packages == {"carver_feeds", "dotenv"}

Emit(lines) == stdout' = stdout \o lines

Call(cmd, out) == spawned' = Append(spawned, [cmd |-> cmd, out |-> out])

Access(ops) == fsops' = fsops \cup ops

FsOp(op, path, by) == [op |-> op, path |-> path, by |-> by]

\* sys.exit(code)
Exit(code) == pc' = "done" /\ exit_code' = code

Runnable(py) == py # <<>> /\ venvAt[VenvOf(py)] = "ready"

Importable(py, pkg) == Runnable(py) /\ pkg \in pkgsAt[VenvOf(py)]

\* What "<python_exe> -c 'import pkg'" can do: the interpreter is not there
\* (subprocess.run raises), the import outlives its 5 s, it succeeds or fails
ProbeOutcomes(py, pkg) ==
    IF ~Runnable(py) THEN {"error"}
    ELSE {"timeout"} \cup (IF pkg \in pkgsAt[VenvOf(py)] THEN {"ok"} ELSE {"nonzero"})

\* What "<python_exe> -m pip install pkg" can do
InstallOutcomes(py) ==
    IF ~Runnable(py) THEN {"error"} ELSE {"ok", "nonzero", "timeout"}

\* the packages of the environment after an install that ended in outcome o:
\* a killed install may or may not have put the package in place
InstalledAfter(py, pkg, o) ==
    IF ~Runnable(py) THEN {pkgsAt}
    ELSE LET with == [pkgsAt EXCEPT ![VenvOf(py)] = @ \cup {pkg}]
         IN CASE o = "ok" -> {with}
              [] o = "timeout" -> {with, pkgsAt}
              [] OTHER -> {pkgsAt}

\* the verification subprocess: it could not be started, it outlived its
\* 30 s, or it exited with a status, a standard output and a standard error
NoChild == [kind |-> "none", rc |-> 0, out |-> <<>>, err |-> <<>>]
SpawnError == [kind |-> "error", rc |-> 0, out |-> <<>>, err |-> <<>>]
TimedOut == [kind |-> "timeout", rc |-> 0, out |-> <<>>, err |-> <<>>]
Exited(rc, out, err) == [kind |-> "exit", rc |-> rc, out |-> out, err |-> err]

NoSnapshot == [venvAt |-> [p \in VenvPaths |-> "absent"], pkgsAt |-> [p \in VenvPaths |-> {}]]

\* Nothing is provisioned and no run has started.  The working directory
\* may hold an environment of its own (the user's project)
\* export_feed_entries is not under test; it has not been called yet
NoExport == [feed_name |-> <<>>, output_format |-> "", output_path |-> <<>>, sdk |-> ""]
NotExported == [result |-> "(not called)", path |-> <<>>, files |-> {}]

\* no run has ended yet
NoRun == [exit_code |-> -1, user_cwd |-> <<>>]

InitFs ==
    /\ venvAt \in {v \in [VenvPaths -> {"absent", "ready"}] : v[T \o <<".venv">>] = "absent"}
    /\ pkgsAt = [p \in VenvPaths |-> {}]
    /\ envFileAt = [p \in EnvPaths |-> MissingFile]
    /\ venvCreations = 0

InitRun ==
    /\ pc = "idle"
    /\ user_cwd = <<>>
    /\ python_exe = <<>>
    /\ has_key = FALSE
    /\ api_key = <<>>
    /\ stdout = <<>>
    /\ exit_code = -1
    /\ unhandled = FALSE
    /\ steps = <<>>
    /\ spawned = <<>>
    /\ fsops = {}
    /\ atStart = NoSnapshot
    /\ child = NoChild
    /\ pyOut = NotRun
    /\ pyBuilt = NoInterp
    /\ lastRun = NoRun
    /\ is_venv = FALSE
    /\ environ = NoVar
    /\ keyOut = NotChecked
    /\ expOut = NotExported

Init ==
    /\ InitFs
    /\ InitRun
    /\ expIn = NoExport
    /\ envIn = MissingFile
    /\ envOut = NotChecked
    /\ pyIn = HostWith(<<>>)

\* The user, between runs, writes, edits or removes a credential file
UserEditsEnv ==
    /\ pc = "idle"
    /\ \E p \in EnvPaths : \E f \in FilesAt(p) :
           /\ f # envFileAt[p]
           /\ envFileAt' = [envFileAt EXCEPT ![p] = f]
    /\ UNCHANGED <<venvAt, pkgsAt, venvCreations, runVars, callerVars, setupVars, exportVars, envVars, pyVars>>

\* lines 302-310: the provisioner is started with or without a directory
\* argument, from some current directory
StartRun ==
    /\ pc = "idle"
    /\ \E argv1 \in Argv1, procCwd \in Dirs :
           user_cwd' = get_user_cwd(argv1, procCwd)
    /\ pc' = "ensure_venv"
    /\ python_exe' = <<>>
    /\ has_key' = FALSE
    /\ api_key' = <<>>
    /\ stdout' = << <<"Skill directory: ">> \o get_skill_dir,
                    <<"Working directory: ">> \o user_cwd',
                    <<"">> >>
    /\ exit_code' = -1
    /\ unhandled' = FALSE
    /\ steps' = <<>>
    /\ spawned' = <<>>
    /\ fsops' = {}
    /\ atStart' = [venvAt |-> venvAt, pkgsAt |-> pkgsAt]
    /\ child' = NoChild
    /\ pyOut' = NotRun
    /\ pyBuilt' = NoInterp
    /\ UNCHANGED <<fsVars, callerVars, setupVars, exportVars, envVars, pyIn>>

\* the process has exited and its caller has read the status and the output
EndRun ==
    /\ pc = "done"
    /\ pc' = "idle"
    /\ user_cwd' = <<>>
    /\ python_exe' = <<>>
    /\ has_key' = FALSE
    /\ api_key' = <<>>
    /\ stdout' = <<>>
    /\ exit_code' = -1
    /\ unhandled' = FALSE
    /\ steps' = <<>>
    /\ spawned' = <<>>
    /\ fsops' = {}
    /\ atStart' = NoSnapshot
    /\ child' = NoChild
    /\ pyOut' = NotRun
    /\ pyBuilt' = NoInterp
    /\ lastRun' = [exit_code |-> exit_code, user_cwd |-> user_cwd]
    /\ UNCHANGED <<fsVars, envVars, pyIn, setupVars, exportVars>>

\* the largest count of environment creations the model keeps
MaxCreations == 3

Created(before, after) ==
    IF before = "absent" /\ after # "absent" /\ venvCreations < MaxCreations
    THEN venvCreations + 1 ELSE venvCreations

\* what a construction that ended in outcome o leaves at the environment path
LeftAfter(o) == IF o = "ok" THEN {"ready"} ELSE {"absent", "partial", "ready"}

\* faulty variant: the existing environment is not looked for
venv_exists_Never(venv_path) == FALSE

\* line 104: venv_path.exists()
venv_exists(venv_path) == venvAt[venv_path] # "absent"

\* lines 124-127, 130: check_call raises on a non-zero status, on a timeout
\* and when the executable cannot be started
check_call_raises(o) == o # "ok"

\* faulty variant: the error without the hints on how to install Python
remediation_lines_ErrorOnly ==
    << <<"">>, <<"ERROR: Python 3.10, 3.11, or 3.12 is required but not found.">> >>

\* lines 112-117: the text printed when no interpreter is found
remediation_lines ==
    << <<"">>,
       <<"ERROR: Python 3.10, 3.11, or 3.12 is required but not found.">>,
       <<"">>, <<"The carver-feeds-sdk requires Python 3.10+.">>,
       <<"">>, <<"Please install a compatible Python version:">>,
       <<"  - macOS: brew install python@3.12">>,
       <<"  - Ubuntu: sudo apt install python3.12">>,
       <<"  - Windows: Download from python.org">> >>

\* lines 100-132 and 313: ensure_venv on a host, the construction (if it comes
\* to that) ending in outcome o and leaving the path in state left
EnsureVenvOn(host, o, left) ==
    /\ pc = "ensure_venv"
    /\ steps' = Append(steps, "ensure_venv")
    /\ UNCHANGED <<user_cwd, has_key, api_key, unhandled, atStart, child, envFileAt,
                   callerVars, setupVars, exportVars, envVars, pyIn>>
    /\ LET venv_path == get_venv_path
           found == find_compatible_python(host)
       IN IF venv_exists(venv_path)
          THEN \* lines 104-105
               /\ python_exe' = get_venv_python(venv_path)
               /\ pc' = "upgrade_pip"
               /\ Access({FsOp("exists", venv_path, "main")})
               /\ UNCHANGED <<venvAt, pkgsAt, venvCreations, stdout, exit_code,
                              spawned, pyOut, pyBuilt>>
          ELSE IF ~found.found
          THEN \* lines 107-118
               /\ Emit(<< <<"Creating virtual environment...">> >> \o remediation_lines)
               /\ Call("find_python", "none")
               /\ Exit(1)
               /\ Access({FsOp("exists", venv_path, "main")})
               /\ pyOut' = found
               /\ UNCHANGED <<venvAt, pkgsAt, venvCreations, python_exe, pyBuilt>>
          ELSE \* lines 120-132
               /\ spawned' = spawned \o <<[cmd |-> "find_python", out |-> "ok"],
                                          [cmd |-> "venv_create", out |-> o]>>
               /\ Access({FsOp("exists", venv_path, "main"),
                          FsOp("create", venv_path, "venv")})
               /\ venvAt' = [venvAt EXCEPT ![venv_path] = left]
               /\ venvCreations' = Created(venvAt[venv_path], left)
               /\ pkgsAt' = [pkgsAt EXCEPT ![venv_path] = {}]
               /\ pyOut' = found
               /\ pyBuilt' = host[found.index]
               /\ IF ~check_call_raises(o)
                  THEN /\ Emit(<< <<"Creating virtual environment...">>,
                                  <<"(tick) Found compatible Python: ">> \o found.version,
                                  <<"(tick) Virtual environment created">> >>)
                       /\ python_exe' = get_venv_python(venv_path)
                       /\ pc' = "upgrade_pip"
                       /\ exit_code' = exit_code
                  ELSE /\ Emit(<< <<"Creating virtual environment...">>,
                                  <<"(tick) Found compatible Python: ">> \o found.version,
                                  <<"ERROR: Failed to create virtual environment: ",
                                    "(exception)">> >>)
                       /\ python_exe' = python_exe
                       /\ Exit(1)

\* lines 148-161 and 316: upgrade_pip.  check_call does not take capture_output:
\* Popen raises TypeError before anything is started, and the handler warns
UpgradePip ==
    /\ pc = "upgrade_pip"
    /\ steps' = Append(steps, "upgrade_pip")
    /\ Emit(<< <<"Upgrading pip...">>,
               <<"WARNING: Could not upgrade pip: ", "(exception)">> >>)
    /\ pc' = "sdk_probe"
    /\ UNCHANGED <<fsVars, user_cwd, python_exe, has_key, api_key, exit_code,
                   unhandled, spawned, fsops, atStart, child, callerVars, setupVars, exportVars, envVars, pyVars>>

\* faulty variant: a probe that timed out is tried again
after_sdk_probe_Retry(o) ==
    IF o = "ok" THEN "dotenv_probe"
    ELSE IF o = "timeout" THEN "sdk_probe" ELSE "sdk_install"

\* lines 319-320: if not is_sdk_installed(python_exe): install_sdk(python_exe)
after_sdk_probe(o) == IF o = "ok" THEN "dotenv_probe" ELSE "sdk_install"

\* lines 135-145 and 319: is_sdk_installed, the probe ending in outcome o
SdkProbe(o) ==
    /\ pc = "sdk_probe"
    /\ steps' = Append(steps, "ensure_sdk")
    /\ Call("sdk_probe", o)
    /\ pc' = after_sdk_probe(o)
    /\ UNCHANGED <<fsVars, user_cwd, python_exe, has_key, api_key, stdout,
                   exit_code, unhandled, fsops, atStart, child, callerVars, setupVars, exportVars, envVars, pyVars>>

\* faulty variant: the status of pip is not checked (call for check_call)
install_sdk_raises_StatusIgnored(o) == o \in {"error", "timeout"}

\* lines 168-171, 174: install_sdk's check_call raises
install_sdk_raises(o) == o # "ok"

\* lines 164-176 and 320: install_sdk, pip ending in outcome o and leaving the
\* packages pkgs
SdkInstall(o, pkgs) ==
    /\ pc = "sdk_install"
    /\ Call("sdk_install", o)
    /\ pkgsAt' = pkgs
    /\ IF ~install_sdk_raises(o)
       THEN /\ Emit(<< <<"Installing carver-feeds-sdk...">>, <<"(output of pip)">>,
                       <<"(tick) SDK installed">> >>)
            /\ pc' = "dotenv_probe"
            /\ exit_code' = exit_code
       ELSE /\ Emit(<< <<"Installing carver-feeds-sdk...">> >>
                    \o (IF o = "error" THEN <<>> ELSE << <<"(output of pip)">> >>)
                    \o << <<"ERROR: Failed to install SDK: ", "(exception)">> >>)
            /\ Exit(1)
    /\ UNCHANGED <<venvAt, envFileAt, venvCreations, user_cwd, python_exe, has_key,
                   api_key, unhandled, steps, fsops, atStart, child, callerVars, setupVars, exportVars, envVars, pyVars>>

\* lines 283-290, 298-299 and 323: ensure_python_dotenv, the probe ending in
\* outcome o
DotenvProbe(o) ==
    /\ pc = "dotenv_probe"
    /\ steps' = Append(steps, "ensure_dotenv")
    /\ Call("dotenv_probe", o)
    /\ pc' = IF o = "nonzero" THEN "dotenv_install" ELSE "check_env"
    /\ UNCHANGED <<fsVars, user_cwd, python_exe, has_key, api_key, stdout,
                   exit_code, unhandled, fsops, atStart, child, callerVars, setupVars, exportVars, envVars, pyVars>>

\* lines 292-299: ensure_python_dotenv, the install ending in outcome o
DotenvInstall(o, pkgs) ==
    /\ pc = "dotenv_install"
    /\ Call("dotenv_install", o)
    /\ pkgsAt' = pkgs
    /\ pc' = "check_env"
    /\ UNCHANGED <<venvAt, envFileAt, venvCreations, user_cwd, python_exe, has_key,
                   api_key, stdout, exit_code, unhandled, steps, fsops, atStart,
                   child, callerVars, setupVars, exportVars, envVars, pyVars>>

\* lines 211-226: what prompt_for_api_key prints
prompt_lines(cwd) ==
    << <<"">>, <<"============================================================">>,
       <<"CARVER API KEY REQUIRED">>,
       <<"============================================================">>,
       <<"">>, <<"The Carver Feeds SDK requires an API key to function.">>,
       <<"">>, <<"To get your API key:">>,
       <<"1. Visit: https://app.carveragents.ai">>,
       <<"2. Sign in or create an account">>,
       <<"3. Copy your API key">>,
       <<"">>, <<"Please provide your Carver API key to continue.">>,
       <<"">>, <<"(The key will be saved to ">> \o cwd \o <<"/.env)">>,
       <<"============================================================">>,
       <<"">>, <<"API_KEY_REQUIRED">>,
       <<"CWD=">> \o cwd >>

\* faulty variant: a template holding the placeholder is written when the file
\* is missing
env_file_left_Template(f) == IF f.kind = "missing" THEN PlaceholderFile ELSE f

\* lines 195-200 and 205-226: what check_env_file and prompt_for_api_key leave
\* of the credential file f: it is opened for reading only, and the prompt
\* only prints
env_file_left(f) == f

\* lines 179-226 and 326-331: check_env_file, then prompt_for_api_key
CheckEnv ==
    /\ pc = "check_env"
    /\ steps' = Append(steps, "check_env")
    /\ LET env_file == env_file_of(user_cwd)
           res == check_env_file(envFileAt[env_file])
       IN /\ Access({FsOp("exists", env_file, "main")}
                    \cup (IF envFileAt[env_file].kind = "missing" THEN {}
                          ELSE {FsOp("read", env_file, "main")}))
          /\ IF res.raised
             THEN \* open() raises and nothing catches it: traceback, status 1
                  /\ unhandled' = TRUE
                  /\ Exit(1)
                  /\ UNCHANGED <<has_key, api_key, stdout>>
             ELSE IF ~res.ok
             THEN /\ Emit(prompt_lines(user_cwd))
                  /\ Exit(2)
                  /\ has_key' = FALSE
                  /\ UNCHANGED <<api_key, unhandled>>
             ELSE /\ has_key' = TRUE
                  /\ api_key' = res.key
                  /\ pc' = "test_conn"
                  /\ UNCHANGED <<stdout, exit_code, unhandled>>
    /\ envFileAt' = [envFileAt EXCEPT ![env_file_of(user_cwd)] = env_file_left(@)]
    /\ UNCHANGED <<venvAt, pkgsAt, venvCreations, user_cwd, python_exe, spawned,
                   atStart, child, callerVars, setupVars, exportVars, envVars, pyVars>>

\* faulty variant: the script looks for the credential beside the tool
script_env_file_InSkillDir(cwd) == env_file_of(get_skill_dir)

\* line 243: the credential file the generated verification script loads
script_env_file(cwd) == env_file_of(cwd)

Traceback == <<"Traceback (most recent call last): ...">>
SuccessOut == <<"SUCCESS", ": Connected! Found ", "3", " topics">>
NotFoundOut == <<"ERROR", ": .env file not found in CWD">>
SdkLog == <<"fetching topics">>

\* faulty variant: the script does not need the helper dependency
VerifyResults_WithoutDotenv(py, cwd) ==
    IF ~Runnable(py) THEN {SpawnError}
    ELSE {TimedOut} \cup
         (IF envFileAt[env_file_of(cwd)].kind = "missing"
          THEN {Exited(1, NotFoundOut, <<>>)}
          ELSE IF envFileAt[env_file_of(cwd)].kind = "dir"
                  \/ "carver_feeds" \notin pkgsAt[VenvOf(py)]
               THEN {Exited(1, <<>>, Traceback)}
          ELSE {Exited(0, SuccessOut, <<>>), Exited(1, SdkLog, Traceback)})

\* lines 236-255: what the verification script can do in the environment
VerifyResults(py, cwd) ==
    IF ~Runnable(py) THEN {SpawnError}
    ELSE {TimedOut} \cup
         (IF "dotenv" \notin pkgsAt[VenvOf(py)] THEN {Exited(1, <<>>, Traceback)}
          ELSE IF envFileAt[script_env_file(cwd)].kind = "missing"
               THEN {Exited(1, NotFoundOut, <<>>)}
          ELSE IF envFileAt[script_env_file(cwd)].kind = "dir"
                  \/ "carver_feeds" \notin pkgsAt[VenvOf(py)]
               THEN {Exited(1, <<>>, Traceback)}
          ELSE {Exited(0, SuccessOut, <<>>), Exited(0, SuccessOut, <<"warning">>),
                Exited(1, <<>>, Traceback), Exited(1, SdkLog, Traceback),
                Exited(1, SdkLog, <<>>), Exited(0, SdkLog, <<>>),
                Exited(1, SuccessOut, Traceback)})

\* the files the verification script touches
ScriptAccess(py, cwd) ==
    IF ~Importable(py, "dotenv") THEN {}
    ELSE {FsOp("exists", script_env_file(cwd), "verify")}
         \cup (IF envFileAt[script_env_file(cwd)].kind = "missing" THEN {}
               ELSE {FsOp("load", script_env_file(cwd), "verify")})

\* faulty variant: any subprocess that ran to its end counts as verified
connection_verified_AnyExit(res) == res.kind = "exit"

\* faulty variant: the marker alone decides, the exit status is not looked at
connection_verified_MarkerOnly(res) ==
    res.kind = "exit" /\ Contains(res.out, <<"SUCCESS">>)

\* line 265: result.returncode == 0 and "SUCCESS" in result.stdout
connection_verified(res) ==
    res.kind = "exit" /\ res.rc = 0 /\ Contains(res.out, <<"SUCCESS">>)

\* lines 266-278: what test_sdk_connection prints
connection_lines(res) ==
    IF res.kind # "exit"
    THEN << <<"ERROR: Failed to test SDK connection: ", "(exception)">> >>
    ELSE IF connection_verified(res) THEN << <<"(tick) SDK connection verified">> >>
    ELSE << <<"ERROR: SDK connection failed">> >>
         \o (IF res.err # <<>> THEN << <<"  ">> \o res.err >> ELSE <<>>)
         \o (IF res.out # <<>> /\ Contains(res.out, <<"ERROR">>)
             THEN << <<"  ">> \o res.out >> ELSE <<>>)

\* faulty variant: the two lines of the report are swapped
success_lines_Swapped(py, cwd) == << <<"">>, <<"CWD=">> \o cwd, <<"VENV_PYTHON=">> \o py >>

\* lines 341-342: the report of success
success_lines(py, cwd) == << <<"">>, <<"VENV_PYTHON=">> \o py, <<"CWD=">> \o cwd >>

\* lines 335-337: the report of a failed verification
failure_lines(cwd) ==
    << <<"">>, <<"ERROR: SDK is installed but cannot connect to API.">>,
       <<"Please check your API key and network connection.">>,
       <<"Looking for .env in: ">> \o cwd >>

\* lines 229-278 and 334-343: test_sdk_connection, the subprocess doing res,
\* then the report of success or the fatal exit
TestConn(res) ==
    /\ pc = "test_conn"
    /\ Call("verify", IF res.kind = "exit" THEN (IF res.rc = 0 THEN "ok" ELSE "nonzero")
                      ELSE res.kind)
    /\ child' = res
    /\ Access(ScriptAccess(python_exe, user_cwd))
    /\ IF connection_verified(res)
       THEN /\ steps' = steps \o <<"test_conn", "report">>
            /\ Emit(connection_lines(res) \o success_lines(python_exe, user_cwd))
            /\ Exit(0)
       ELSE /\ steps' = Append(steps, "test_conn")
            /\ Emit(connection_lines(res) \o failure_lines(user_cwd))
            /\ Exit(1)
    /\ UNCHANGED <<fsVars, user_cwd, python_exe, has_key, api_key, unhandled,
                   atStart, callerVars, setupVars, exportVars, envVars, pyVars>>

----------------------------------------------------------------------------
(* The runs of the provisioner *)

EnsureVenv ==
    \E host \in SampleHosts, o \in {"ok", "nonzero", "timeout"} :
        \E left \in LeftAfter(o) : EnsureVenvOn(host, o, left)

EnsureSdkProbe == \E o \in ProbeOutcomes(python_exe, "carver_feeds") : SdkProbe(o)

EnsureSdkInstall ==
    \E o \in InstallOutcomes(python_exe) :
        \E pkgs \in InstalledAfter(python_exe, "carver_feeds", o) : SdkInstall(o, pkgs)

EnsureDotenvProbe == \E o \in ProbeOutcomes(python_exe, "dotenv") : DotenvProbe(o)

EnsureDotenvInstall ==
    \E o \in InstallOutcomes(python_exe) :
        \E pkgs \in InstalledAfter(python_exe, "dotenv", o) : DotenvInstall(o, pkgs)

TestConnection == \E res \in VerifyResults(python_exe, user_cwd) : TestConn(res)

Next ==
    \/ UserEditsEnv
    \/ StartRun
    \/ EnsureVenv
    \/ UpgradePip
    \/ EnsureSdkProbe
    \/ EnsureSdkInstall
    \/ EnsureDotenvProbe
    \/ EnsureDotenvInstall
    \/ CheckEnv
    \/ TestConnection
    \/ EndRun

Spec == Init /\ [][Next]_vars

\* a step of a run: main goes on by itself, and every call it waits for
\* returns, at the latest when its timeout expires
RunStep ==
    \/ EnsureVenv
    \/ UpgradePip
    \/ EnsureSdkProbe
    \/ EnsureSdkInstall
    \/ EnsureDotenvProbe
    \/ EnsureDotenvInstall
    \/ CheckEnv
    \/ TestConnection

SpecLive == Init /\ [][Next]_vars /\ WF_vars(RunStep)

----------------------------------------------------------------------------
(* check_env_file on every credential file of the bounded set *)

InitEnv ==
    /\ InitFs
    /\ InitRun
    /\ expIn = NoExport
    /\ envIn \in TestFiles
    /\ envOut = NotChecked
    /\ pyIn = HostWith(<<>>)

\* auto_init.py lines 179-202 and setup_environment.py lines 93-115:
\* check_env_file and check_api_key are called on the file
CheckFile ==
    /\ envOut = NotChecked
    /\ envOut' = check_env_file(envIn)
    /\ keyOut' = check_api_key(environ, envIn)
    /\ UNCHANGED <<fsVars, runVars, callerVars, is_venv, environ, exportVars, envIn, pyVars>>

SpecEnv == InitEnv /\ [][CheckFile]_vars

----------------------------------------------------------------------------
(* Step 1 of the provisioner on every host of the bounded set *)

InitFind ==
    /\ InitFs
    /\ venvAt = [p \in VenvPaths |-> "absent"]
    /\ InitRun
    /\ expIn = NoExport
    /\ envIn = MissingFile
    /\ envOut = NotChecked
    /\ \E S \in PresentSets : \E f \in [S -> PresentEntries] : pyIn = HostWith(f)

\* the construction succeeds, or fails and leaves nothing
EnsureVenvOnHost ==
    \/ EnsureVenvOn(pyIn, "ok", "ready")
    \/ EnsureVenvOn(pyIn, "nonzero", "absent")

NextFind ==
    \/ StartRun
    \/ EnsureVenvOnHost

SpecFind == InitFind /\ [][NextFind]_vars

----------------------------------------------------------------------------
(* The manual setup script: setup_environment.main, step by step.          *)
(* The pictograph that starts most of its lines is left out of the text.   *)

\* what os.getenv("CARVER_API_KEY") returns: nothing, "", a key, the placeholder
EnvValues == {NoVar, <<>>, <<"x">>, Placeholder}

\* what is at <cwd>/.venv: nothing, a directory without an interpreter, a
\* directory with bin/python and no pip, a complete environment
VenvStates == {"absent", "empty", "partial", "ready"}

\* sys.executable of the running process
SysExecutable == <<"sys.executable">>

\* lines 98, 107, 110-114: what check_api_key prints
api_key_lines(env, f) ==
    IF env # NoVar /\ env # <<>> THEN << <<"CARVER_API_KEY found in environment">> >>
    ELSE IF check_api_key(env, f).raised THEN <<>>
    ELSE IF check_api_key(env, f).ok THEN << <<"CARVER_API_KEY found in .env file">> >>
    ELSE << <<"CARVER_API_KEY not found">>, <<"">>, <<"To set up your API key:">>,
            <<"1. Create a .env file in your working directory">>,
            <<"2. Add this line: CARVER_API_KEY=your_api_key_here">>,
            <<"3. Get your API key from: https://app.carveragents.ai">> >>

\* lines 62, 40-42: the interpreter of the environment is on disk
venv_python_exists(st) == st \in {"partial", "ready"}

\* faulty variant: an environment found on disk counts as the active one
setup_venv_in_venv_WhenFound(active, found) == active \/ found

\* lines 49, 58, 64, 74: the second value setup_venv returns
setup_venv_in_venv(active, found) == active

\* lines 45-74: setup_venv(); before: what is at venv_path, left: what
\* venv.create leaves there when it is called
setup_venv(active, venv_path, before, left) ==
    LET after == IF active \/ before # "absent" THEN before ELSE left
        found == ~active /\ (before # "absent" \/ left = "ready")
                         /\ venv_python_exists(after)
    IN [python_exe |-> IF active THEN SysExecutable
                       ELSE IF found THEN get_venv_python(venv_path) ELSE <<>>,
        in_venv |-> setup_venv_in_venv(active, found),
        venv |-> after,
        lines |->
            IF active THEN << <<"Already running in a virtual environment">> >>
            ELSE << <<"Not in a virtual environment">> >> \o
                 (IF before # "absent"
                  THEN << <<"Found existing virtual environment at ">> \o venv_path >>
                  ELSE << <<"Creating virtual environment at ">> \o venv_path \o <<"...">> >> \o
                       (IF left = "ready"
                        THEN << <<"Virtual environment created successfully">> >>
                        ELSE << <<"Failed to create virtual environment: ">> >>)) \o
                 (IF before = "absent" /\ left # "ready" THEN <<>>
                  ELSE IF ~venv_python_exists(after)
                  THEN << <<"Virtual environment Python not found at ">>
                          \o get_venv_python(venv_path) >>
                  ELSE << <<"">>, <<"To activate the virtual environment:">>,
                          <<"   source ">> \o venv_path \o <<"/bin/activate">>,
                          <<"">>,
                          <<"Please activate the virtual environment and run this script again.">> >>)]

\* lines 171-181: the end of main
complete_lines ==
    << <<"">>, <<"============================================================">>,
       <<"Environment setup complete!">>,
       <<"">>, <<"Next steps:">>,
       <<"- Use 'from carver_feeds import create_query_engine' to start querying">>,
       <<"- See reference docs for API details and examples">>,
       <<"- Run query templates for common use cases">>,
       <<"">>, <<"Your virtual environment is at: ">>, <<"sys.prefix">>,
       <<"   Remember to activate it in future sessions!">> >>

\* the variables the setup script leaves alone
setupFrame ==
    <<user_cwd, api_key, atStart, child, pkgsAt, envFileAt, venvCreations, fsops,
      envVars, pyVars, callerVars, setupVars, exportVars>>

InitSetup ==
    /\ pc = "setup_venv"
    /\ user_cwd \in Dirs
    /\ is_venv \in BOOLEAN
    /\ environ \in EnvValues
    /\ \E st \in VenvStates :
           venvAt = [p \in VenvPaths |-> IF p = user_cwd \o <<".venv">> THEN st ELSE "absent"]
    /\ \E f \in WorkFiles :
           envFileAt = [p \in EnvPaths |-> IF p = env_file_of(user_cwd) THEN f ELSE MissingFile]
    /\ pkgsAt = [p \in VenvPaths |-> {}]
    /\ venvCreations = 0
    /\ python_exe = <<>>
    /\ has_key = FALSE
    /\ api_key = <<>>
    /\ stdout = <<>>
    /\ exit_code = -1
    /\ unhandled = FALSE
    /\ steps = <<>>
    /\ spawned = <<>>
    /\ fsops = {}
    /\ atStart = NoSnapshot
    /\ child = NoChild
    /\ pyOut = NotRun
    /\ pyBuilt = NoInterp
    /\ pyIn = HostWith(<<>>)
    /\ envIn = MissingFile
    /\ envOut = NotChecked
    /\ lastRun = NoRun
    /\ keyOut = NotChecked
    /\ expIn = NoExport
    /\ expOut = NotExported

\* lines 140-148: the banner, step 1 and its gate
SetupVenvStep ==
    /\ pc = "setup_venv"
    /\ \E left \in VenvStates :
           LET venv_path == user_cwd \o <<".venv">>
               before == venvAt[venv_path]
               r == setup_venv(is_venv, venv_path, before, left)
           IN /\ (is_venv \/ before # "absent") => left = before
              /\ venvAt' = [venvAt EXCEPT ![venv_path] = r.venv]
              /\ python_exe' = r.python_exe
              /\ Emit(<< <<"Carver Feeds SDK - Environment Setup">>, <<"">>,
                         <<"============================================================">>,
                         <<"">>, <<"Step 1: Checking virtual environment...">> >>
                      \o r.lines)
              /\ IF r.in_venv
                 THEN pc' = "install_sdk" /\ UNCHANGED exit_code
                 ELSE Exit(1)
    /\ steps' = Append(steps, "setup_venv")
    /\ UNCHANGED <<user_cwd, has_key, api_key, unhandled, spawned, atStart, child,
                   pkgsAt, envFileAt, venvCreations, fsops, envVars, pyVars,
                   callerVars, setupVars, exportVars>>

\* what the pip subprocess of install_sdk does: it ends with status 0, ends
\* with another status, cannot be started, or never ends (check_call is given
\* no timeout, and two pipes nobody reads)
SetupInstallOutcomes == {"ok", "nonzero", "error", "blocked"}

\* lines 151-155 and 77-90: step 2 and its gate
InstallSdkStep ==
    /\ pc = "install_sdk"
    /\ \E o \in SetupInstallOutcomes :
           /\ Call("pip_install_sdk", o)
           /\ CASE o = "ok" ->
                     /\ Emit(<< <<"">>, <<"Step 2: Installing SDK...">>,
                                <<"Installing carver-feeds-sdk from PyPI...">>,
                                <<"SDK installed successfully">> >>)
                     /\ pc' = "check_api_key"
                     /\ UNCHANGED <<exit_code, unhandled>>
                [] o = "nonzero" ->
                     /\ Emit(<< <<"">>, <<"Step 2: Installing SDK...">>,
                                <<"Installing carver-feeds-sdk from PyPI...">>,
                                <<"Failed to install SDK: ">>,
                                <<"">>, <<"Setup failed: Could not install SDK">> >>)
                     /\ Exit(1)
                     /\ UNCHANGED unhandled
                [] o = "error" ->
                     /\ Emit(<< <<"">>, <<"Step 2: Installing SDK...">>,
                                <<"Installing carver-feeds-sdk from PyPI...">> >>)
                     /\ unhandled' = TRUE
                     /\ Exit(1)
                [] o = "blocked" ->
                     /\ Emit(<< <<"">>, <<"Step 2: Installing SDK...">>,
                                <<"Installing carver-feeds-sdk from PyPI...">> >>)
                     /\ pc' = "blocked"
                     /\ UNCHANGED <<exit_code, unhandled>>
    /\ steps' = Append(steps, "install_sdk")
    /\ UNCHANGED <<python_exe, has_key, venvAt, setupFrame>>

\* lines 158-162 and 93-115: step 3 and its gate
CheckApiKeyStep ==
    /\ pc = "check_api_key"
    /\ LET f == envFileAt[env_file_of(user_cwd)]
           r == check_api_key(environ, f)
       IN /\ Emit(<< <<"">>, <<"Step 3: Checking API key...">> >>
                  \o api_key_lines(environ, f)
                  \o (IF r.ok \/ r.raised THEN <<>>
                      ELSE << <<"">>, <<"Setup incomplete: API key not configured">> >>))
          /\ has_key' = r.ok
          /\ unhandled' = r.raised
          /\ IF r.ok THEN pc' = "test_connection" /\ UNCHANGED exit_code
             ELSE Exit(1)
    /\ steps' = Append(steps, "check_api_key")
    /\ UNCHANGED <<python_exe, spawned, venvAt, setupFrame>>

\* what the calls of test_connection do: they return, the import fails, or
\* another exception is raised
ConnectionOutcomes == {"ok", "import_error", "error"}

\* lines 118-135: what test_connection prints
test_connection_lines(o) ==
    IF o = "ok" THEN << <<"Connected successfully! Found ", "3", " topics available">> >>
    ELSE IF o = "import_error"
    THEN << <<"SDK not installed. Run this script again to install.">> >>
    ELSE << <<"Connection failed: ">>, <<"">>, <<"Troubleshooting:">>,
            <<"- Verify your API key is correct">>,
            <<"- Check your internet connection">>,
            <<"- Visit https://app.carveragents.ai/api-docs/ for API status">> >>

\* lines 165-181 and 118-135: step 4, its gate and the end of main
TestConnectionStep ==
    /\ pc = "test_connection"
    /\ \E o \in ConnectionOutcomes :
           /\ Emit(<< <<"">>, <<"Step 4: Testing API connection...">> >>
                   \o test_connection_lines(o)
                   \o (IF o = "ok" THEN complete_lines
                       ELSE << <<"">>, <<"Setup failed: Could not connect to API">> >>))
           /\ Exit(IF o = "ok" THEN 0 ELSE 1)
    /\ steps' = Append(steps, "test_connection")
    /\ UNCHANGED <<python_exe, has_key, unhandled, spawned, venvAt, setupFrame>>

NextSetup ==
    \/ SetupVenvStep
    \/ InstallSdkStep
    \/ CheckApiKeyStep
    \/ TestConnectionStep

SpecSetup == InitSetup /\ [][NextSetup]_vars

----------------------------------------------------------------------------
(* query_templates.export_feed_entries.                                    *)
(* Feed names and paths are sequences of characters; "A" is an upper-case  *)
(* letter, "b" a lower-case one, "\t" white space other than the space.    *)
(* The calls into the SDK (create_query_engine, filter_by_feed, to_csv,    *)
(* to_json, to_dataframe) either return or raise; to_csv(path) that        *)
(* returns has written the file at path.                                   *)

\* the longest feed name of the bounded set
MaxName == 2

NameChars == {"A", "b", " ", "\t"}
FeedNames == SeqsUpTo(NameChars, MaxName)

\* output_path=None
NoPath == <<"(None)">>
GivenPath == <<"o", "u", "t", "/", "A", " ", "x">>
OutputPaths == {NoPath, <<>>, GivenPath}

Formats == {"csv", "json", "dataframe", "xml", "CSV", ""}

\* what the calls into the SDK and open() do: all return; the engine or the
\* filter raises; the rendering raises, leaving nothing or a file behind;
\* open(path, 'w') raises
SdkOutcomes == {"ok", "engine", "render", "render_left", "open"}

ExportInputs ==
    [feed_name : FeedNames, output_format : Formats, output_path : OutputPaths,
     sdk : SdkOutcomes]

\* str.lower()
lower(s) == [i \in DOMAIN s |-> IF s[i] = "A" THEN "a" ELSE s[i]]

\* str.replace(' ', '_')
replace_spaces(s) == [i \in DOMAIN s |-> IF s[i] = " " THEN "_" ELSE s[i]]

\* faulty variant: the name is used as it was given
default_path_AsGiven(feed_name, ext) == feed_name \o <<"_entries.", ext>>

\* lines 216, 222: f"{feed_name.lower().replace(' ', '_')}_entries.<ext>"
default_path(feed_name, ext) == replace_spaces(lower(feed_name)) \o <<"_entries.", ext>>

\* lines 216, 222: output_path or <default>
export_path(feed_name, output_path, ext) ==
    IF output_path # NoPath /\ output_path # <<>> THEN output_path
    ELSE default_path(feed_name, ext)

Returned(value, files) ==
    [result |-> "returned", value |-> value, error |-> "", files |-> files]
Raised(error, files) ==
    [result |-> "raised", value |-> <<>>, error |-> error, files |-> files]

\* lines 195-234: export_feed_entries(feed_name, output_format, output_path)
export_feed_entries(args) ==
    IF args.sdk = "engine" THEN Raised("SdkError", {})
    ELSE IF args.output_format = "csv"
    THEN LET path == export_path(args.feed_name, args.output_path, "csv")
         IN IF args.sdk \in {"render", "open"} THEN Raised("SdkError", {})
            ELSE IF args.sdk = "render_left" THEN Raised("SdkError", {path})
            ELSE Returned(path, {path})
    ELSE IF args.output_format = "json"
    THEN LET path == export_path(args.feed_name, args.output_path, "json")
         IN IF args.sdk = "open" THEN Raised("OSError", {})
            ELSE IF args.sdk \in {"render", "render_left"} THEN Raised("SdkError", {path})
            ELSE Returned(path, {path})
    ELSE IF args.output_format = "dataframe"
    THEN IF args.sdk \in {"render", "render_left"} THEN Raised("SdkError", {})
         ELSE Returned(<<"dataframe">>, {})
    ELSE Raised("ValueError", {})

InitExport ==
    /\ InitFs
    /\ venvAt = [p \in VenvPaths |-> "absent"]
    /\ InitRun
    /\ envIn = MissingFile
    /\ envOut = NotChecked
    /\ pyIn = HostWith(<<>>)
    /\ expIn \in ExportInputs

\* lines 195-234: the function is called on the arguments
ExportFeedEntries ==
    /\ expOut = NotExported
    /\ expOut' = export_feed_entries(expIn)
    /\ UNCHANGED <<fsVars, runVars, callerVars, setupVars, envVars, pyVars, expIn>>

SpecExport == InitExport /\ [][ExportFeedEntries]_vars

----------------------------------------------------------------------------
(* Properties *)

Running == pc \notin {"idle", "done"}
Done == pc = "done"

Spawned(cmd) == \E i \in DOMAIN spawned : spawned[i].cmd = cmd
SpawnedWith(cmd, out) == \E i \in DOMAIN spawned : spawned[i] = [cmd |-> cmd, out |-> out]
Stepped(step) == \E i \in DOMAIN steps : steps[i] = step

\* a gating step failed: no interpreter, construction, SDK install, verification
GatingFailure ==
    \E i \in DOMAIN spawned :
        /\ spawned[i].cmd \in {"find_python", "venv_create", "sdk_install", "verify"}
        /\ spawned[i].out # "ok"

\* the verification subprocess of the run exited 0 with the marker in its output
MarkerReturned ==
    /\ child.kind = "exit"
    /\ child.rc = 0
    /\ \E i \in DOMAIN child.out : child.out[i] = "SUCCESS"

\* the credential file of the working directory of the run
CredentialFile == envFileAt[user_cwd \o <<".env">>]

\* a line of a credential file names the key: trimmed, it begins CARVER_API_KEY=
IsKeyLine(line) ==
    LET t == Strip(line) IN Len(t) >= 2 /\ t[1] = "K" /\ t[2] = "="

\* the value of a key line: what follows its first "=", trimmed
ValueOf(line) ==
    LET t == Strip(line)
        eq == CHOOSE i \in 1..Len(t) : t[i] = "=" /\ \A j \in 1..(i - 1) : t[j] # "="
    IN Strip(SubSeq(t, eq + 1, Len(t)))

\* a line that configures the credential
GoodLine(line) ==
    IsKeyLine(line) /\ ValueOf(line) # <<>> /\ ValueOf(line) # <<"P">>

HasCredential(f) ==
    f.kind = "file" /\ \E i \in DOMAIN f.lines : GoodLine(f.lines[i])

\* the file gives CARVER_API_KEY the placeholder and no other value
PlaceholderOnly(f) ==
    /\ f.kind = "file"
    /\ \E i \in DOMAIN f.lines : IsKeyLine(f.lines[i])
    /\ \A i \in DOMAIN f.lines :
           IsKeyLine(f.lines[i]) => ValueOf(f.lines[i]) = <<"P">>

IsVenvPythonLine(line) == line # <<>> /\ line[1] = "VENV_PYTHON="
IsCwdLine(line) == line # <<>> /\ line[1] = "CWD="
IsMarkerLine(line) == line = <<"API_KEY_REQUIRED">>

\* C1: a run that has ended has status 0, 1 or 2 and a run that has not has
\* none; status 0 only after the verification of the run returned 0 with the
\* marker; status 2 only from the credential step, the credential file of the
\* working directory holding no credential; a run in which the interpreter
\* search, the construction, the SDK install or the verification failed, or
\* which ended by an uncaught exception, has status 1 once it has ended.
C1_TerminalStates ==
    /\ Done <=> exit_code \in {0, 1, 2}
    /\ ~Done => exit_code = -1
    /\ exit_code = 0 =>
           /\ spawned # <<>>
           /\ Last(spawned) = [cmd |-> "verify", out |-> "ok"]
           /\ MarkerReturned
    /\ exit_code = 2 =>
           /\ steps # <<>>
           /\ Last(steps) = "check_env"
           /\ ~has_key
           /\ ~HasCredential(CredentialFile)
    /\ (GatingFailure \/ unhandled) => exit_code = 1

C1_Witness ==
    /\ Done
    /\ exit_code = 0
    /\ SpawnedWith("dotenv_probe", "timeout")

\* C2: once the credential step has run with the credential file of the
\* working directory missing, or giving CARVER_API_KEY the placeholder only,
\* the run has ended with status 2 and its last two lines are
\* API_KEY_REQUIRED and CWD=<the resolved working directory>, the same in
\* both cases.
C2_NeedCredential ==
    (Stepped("check_env") /\ (CredentialFile.kind = "missing" \/ PlaceholderOnly(CredentialFile)))
    => /\ Done
       /\ exit_code = 2
       /\ user_cwd \in Dirs
       /\ Len(stdout) >= 2
       /\ stdout[Len(stdout) - 1] = <<"API_KEY_REQUIRED">>
       /\ stdout[Len(stdout)] = <<"CWD=">> \o user_cwd

C2_Witness ==
    /\ Stepped("check_env")
    /\ PlaceholderOnly(CredentialFile)
    /\ exit_code = 2

\* C3: a run with status 0 has as its last two lines VENV_PYTHON=<the
\* interpreter of the environment under the tool directory> and CWD=<the
\* resolved working directory>; a run without status 0 has printed no
\* VENV_PYTHON= line.
C3_SuccessReport ==
    /\ exit_code = 0 =>
           /\ Len(stdout) >= 2
           /\ stdout[Len(stdout) - 1] = <<"VENV_PYTHON=">> \o T \o <<".venv", "bin", "python">>
           /\ venvAt[T \o <<".venv">>] = "ready"
           /\ stdout[Len(stdout)] = <<"CWD=">> \o user_cwd
           /\ user_cwd \in Dirs
    /\ exit_code # 0 => \A i \in DOMAIN stdout : ~IsVenvPythonLine(stdout[i])

C3_Witness ==
    /\ Done
    /\ exit_code = 0
    /\ user_cwd = W

\* a sequence without its i-th element
Without(seq, i) == SubSeq(seq, 1, i - 1) \o SubSeq(seq, i + 1, Len(seq))

\* the first line of the file that configures the credential
FirstGoodLine(f) ==
    f.lines[CHOOSE i \in DOMAIN f.lines :
                GoodLine(f.lines[i]) /\ \A j \in 1..(i - 1) : ~GoodLine(f.lines[j])]

\* C4: check_env_file reports a credential exactly when the file exists and
\* has a line that, trimmed, begins CARVER_API_KEY= and whose value after the
\* first "=", trimmed, is neither empty nor the placeholder; the key it
\* returns is the value of the first such line (None when there is none); and
\* the result is the same on the file without any one of its other lines.
C4_CheckEnvFile ==
    envOut # NotChecked =>
        /\ ~envOut.raised
        /\ envOut.ok <=> HasCredential(envIn)
        /\ envOut.ok => envOut.key = ValueOf(FirstGoodLine(envIn))
        /\ ~envOut.ok => envOut.key = <<>>
        /\ \A i \in DOMAIN envIn.lines :
               ~GoodLine(envIn.lines[i])
               => check_env_file(TextFile(Without(envIn.lines, i))) = envOut

C4_Witness ==
    /\ envOut # NotChecked
    /\ envOut.ok
    /\ Len(envIn.lines) = 2
    /\ IsKeyLine(envIn.lines[1])
    /\ ~GoodLine(envIn.lines[1])
    /\ envOut.key = <<"a", "=", "b">>

\* when the run started the environment existed with a runnable interpreter,
\* the SDK was importable in it and the working directory held a credential
StartValid ==
    /\ atStart.venvAt[T \o <<".venv">>] = "ready"
    /\ "carver_feeds" \in atStart.pkgsAt[T \o <<".venv">>]
    /\ HasCredential(CredentialFile)

HelperAtStart == "dotenv" \in atStart.pkgsAt[T \o <<".venv">>]

ProbeTimedOut == SpawnedWith("sdk_probe", "timeout") \/ SpawnedWith("dotenv_probe", "timeout")

NothingBuiltOrInstalled ==
    /\ ~Spawned("venv_create")
    /\ ~Spawned("sdk_install")
    /\ ~Spawned("dotenv_install")

PcValues ==
    {"idle", "ensure_venv", "upgrade_pip", "sdk_probe", "sdk_install", "dotenv_probe",
     "dotenv_install", "check_env", "test_conn", "done"}

\* the host with every candidate that exits non-zero timing out instead
TimingOut(host) == [i \in DOMAIN host |-> IF host[i] = Fails THEN Hangs ELSE host[i]]

\* the actions A and B, each enabled, lead to the same position and the same
\* exit status
SameOutcome(A, B) ==
    /\ \A p \in PcValues : (ENABLED (A /\ pc' = p)) <=> (ENABLED (B /\ pc' = p))
    /\ \A e \in {-1, 0, 1, 2} :
           (ENABLED (A /\ exit_code' = e)) <=> (ENABLED (B /\ exit_code' = e))

\* C6: at every subprocess-invoking step, handling a timeout of the call
\* leads to the same next position and exit status as handling a non-zero exit
\* status of it: the version queries select the same interpreter, and the
\* construction, the SDK probe and install, the helper-dependency probe and
\* install and the verification continue or end the run the same way.
C6_TimeoutAsNonZero ==
    /\ \A host \in SampleHosts :
           find_compatible_python(TimingOut(host)) = find_compatible_python(host)
    /\ (pc = "ensure_venv" /\ venvAt[T \o <<".venv">>] = "absent") =>
           \A host \in {h \in SampleHosts : find_compatible_python(h).found},
              left \in LeftAfter("timeout") :
               SameOutcome(EnsureVenvOn(host, "timeout", left),
                           EnsureVenvOn(host, "nonzero", left))
    /\ pc = "sdk_probe" => SameOutcome(SdkProbe("timeout"), SdkProbe("nonzero"))
    /\ pc = "sdk_install" =>
           SameOutcome(SdkInstall("timeout", pkgsAt), SdkInstall("nonzero", pkgsAt))
    /\ pc = "dotenv_probe" => SameOutcome(DotenvProbe("timeout"), DotenvProbe("nonzero"))
    /\ pc = "dotenv_install" =>
           SameOutcome(DotenvInstall("timeout", pkgsAt), DotenvInstall("nonzero", pkgsAt))
    /\ pc = "test_conn" =>
           SameOutcome(TestConn(TimedOut), TestConn(Exited(1, <<>>, Traceback)))

\* the step of main a subprocess call belongs to
StepOf(cmd) ==
    CASE cmd \in {"find_python", "venv_create"} -> "ensure_venv"
      [] cmd \in {"sdk_probe", "sdk_install"} -> "ensure_sdk"
      [] cmd \in {"dotenv_probe", "dotenv_install"} -> "ensure_dotenv"
      [] OTHER -> "test_conn"

\* C7: the run never ends at the pip upgrade or at the helper-dependency
\* step, whatever their outcome: after the pip upgrade it is at the SDK
\* probe, after the helper-dependency probe at the helper install or the
\* credential step, after the helper install at the credential step.  A failed
\* interpreter search, construction, SDK install or verification is the last
\* call of the run, which has ended with status 1 at that step.
C7_GatingAndBestEffort ==
    /\ Done => (steps # <<>> /\ Last(steps) \notin {"upgrade_pip", "ensure_dotenv"})
    /\ (steps # <<>> /\ Last(steps) = "upgrade_pip") => pc = "sdk_probe"
    /\ (steps # <<>> /\ Last(steps) = "ensure_dotenv") =>
           /\ pc \in {"dotenv_install", "check_env"}
           /\ Last(spawned).cmd = "dotenv_install" => pc = "check_env"
    /\ \A i \in DOMAIN spawned :
           (/\ spawned[i].cmd \in {"find_python", "venv_create", "sdk_install", "verify"}
            /\ spawned[i].out # "ok")
           => /\ Done
              /\ exit_code = 1
              /\ i = Len(spawned)
              /\ Last(steps) = StepOf(spawned[i].cmd)

C7_Witness ==
    /\ SpawnedWith("dotenv_install", "nonzero")
    /\ SpawnedWith("verify", "nonzero")
    /\ Done
    /\ exit_code = 1

\* scenario A: the run started with no environment directory, the working
\* directory holds no credential file, and the interpreter search of the run
\* found an acceptable interpreter
ScenarioA ==
    /\ Running \/ Done
    /\ atStart.venvAt[T \o <<".venv">>] = "absent"
    /\ CredentialFile.kind = "missing"
    /\ pyOut.found

\* the run has ended asking for the credential: status 2, the marker line and
\* the CWD= line of the working directory on stdout
AskedForCredential ==
    /\ exit_code = 2
    /\ \E i \in DOMAIN stdout : IsMarkerLine(stdout[i])
    /\ \E i \in DOMAIN stdout : stdout[i] = <<"CWD=">> \o user_cwd

\* C8 as stated: a run of scenario A that has ended asked for the credential,
\* and no run of scenario A starts the verification subprocess.
C8_Original ==
    ScenarioA =>
        /\ Done => AskedForCredential
        /\ ~Spawned("verify")

\* C8 (amended): a run of scenario A never starts the verification subprocess
\* and never has status 0; when it has ended and the construction of the
\* environment and the installation of the SDK both succeeded, it asked for
\* the credential; otherwise it has ended with status 1 at the failed step.
C8_ScenarioA ==
    ScenarioA =>
        /\ ~Spawned("verify")
        /\ exit_code # 0
        /\ Spawned("venv_create")
        /\ Done =>
               IF SpawnedWith("venv_create", "ok") /\ SpawnedWith("sdk_install", "ok")
               THEN AskedForCredential /\ Last(steps) = "check_env"
               ELSE exit_code = 1 /\ Last(steps) \in {"ensure_venv", "ensure_sdk"}

C8_Witness ==
    /\ ScenarioA
    /\ Done
    /\ AskedForCredential
    /\ SpawnedWith("venv_create", "ok")
    /\ SpawnedWith("sdk_install", "ok")
    /\ SpawnedWith("dotenv_install", "timeout")

\* the candidate answers the version query with status 0 as Python 3.10, 3.11
\* or 3.12
Acceptable(e) == e.kind = "ok" /\ e.major = 3 /\ e.minor \in {10, 11, 12}

\* C9: once the search has run on the host, it found a candidate exactly
\* when some candidate of the list is acceptable; the candidate it returns is
\* the first acceptable one in list order, under its name in the list; it
\* returns (None, None) when none is acceptable; and an environment is only
\* constructed, and only with an acceptable interpreter, after a search that
\* found one.
C9_FirstMatch ==
    /\ pyOut # NotRun =>
           /\ pyOut.found <=> \E i \in DOMAIN pyIn : Acceptable(pyIn[i])
           /\ pyOut.found =>
                  /\ pyOut.index \in DOMAIN pyIn
                  /\ Acceptable(pyIn[pyOut.index])
                  /\ \A j \in 1..(pyOut.index - 1) : ~Acceptable(pyIn[j])
                  /\ pyOut.python_path = Candidates[pyOut.index]
           /\ ~pyOut.found => pyOut = NotFound
    /\ Spawned("venv_create") => (pyOut.found /\ pyBuilt = pyIn[pyOut.index])
    /\ pyBuilt # NoInterp => Acceptable(pyBuilt)

\* the first candidates are skipped, a later one is selected although a
\* candidate after it is acceptable too, and the environment is built with it
C9_Witness ==
    /\ pyOut.found
    /\ pyOut.index > 1
    /\ \A j \in 1..(pyOut.index - 1) : ~query_returned(pyIn[j])
    /\ \E k \in (pyOut.index + 1)..Len(pyIn) : Acceptable(pyIn[k])
    /\ pyBuilt = pyIn[pyOut.index]
    /\ SpawnedWith("venv_create", "ok")

\* the file-system accesses of the run that concern an environment directory,
\* and those that concern a credential file
VenvOps == {op \in fsops : op.op = "create" \/ Last(op.path) = ".venv"}
EnvOps == {op \in fsops : op.op \in {"read", "load"} \/ Last(op.path) = ".env"}

\* C10: in a run whose working directory is not the tool directory, every
\* check for and creation of the environment is at .venv under the tool
\* directory, every access to a credential file, by the provisioner and by
\* the verification script, is at .env in the working directory, the
\* interpreter used is the one of the environment under the tool directory,
\* and what is at .venv under the working directory is as it was when the run
\* started.
C10_DirectorySeparation ==
    ((Running \/ Done) /\ user_cwd # T) =>
        /\ \A op \in VenvOps : op.path = T \o <<".venv">>
        /\ \A op \in EnvOps : op.path = user_cwd \o <<".env">>
        /\ python_exe # <<>> => python_exe = T \o <<".venv", "bin", "python">>
        /\ venvAt[user_cwd \o <<".venv">>] = atStart.venvAt[user_cwd \o <<".venv">>]
        /\ pkgsAt[user_cwd \o <<".venv">>] = atStart.pkgsAt[user_cwd \o <<".venv">>]
        /\ has_key => HasCredential(envFileAt[user_cwd \o <<".env">>])

\* a run in W that built the environment, read and loaded the credential and
\* succeeded, while the tool directory holds a credential file of its own and
\* W has no environment
C10_Witness ==
    /\ Done
    /\ exit_code = 0
    /\ user_cwd = W
    /\ envFileAt[T \o <<".env">>] = ToolFile
    /\ venvAt[W \o <<".venv">>] = "absent"
    /\ FsOp("create", T \o <<".venv">>, "venv") \in fsops
    /\ FsOp("read", W \o <<".env">>, "main") \in fsops
    /\ FsOp("load", W \o <<".env">>, "verify") \in fsops

\* C11: the credential files change only between runs, by the user: no step
\* of a run, from its start to its exit, changes the existence or the content
\* of the file at .env in the working directory or in the tool directory.
C11_CredentialFileUntouched ==
    [][envFileAt' # envFileAt => (pc = "idle" /\ pc' = "idle")]_vars

\* a run found no credential file, signalled it and ended, and there is still
\* no file
C11_Witness ==
    /\ Done
    /\ exit_code = 2
    /\ Stepped("check_env")
    /\ CredentialFile = MissingFile
    /\ \E i \in DOMAIN stdout : IsMarkerLine(stdout[i])

\* the standard output of the verification subprocess holds the success marker
MarkerInOutput ==
    child.kind = "exit" /\ \E i \in DOMAIN child.out : child.out[i] = "SUCCESS"

\* the verification subprocess exited non-zero, timed out, could not be
\* started, or wrote no marker
VerificationFailed ==
    \/ child.kind \in {"timeout", "error"}
    \/ child.kind = "exit" /\ child.rc # 0
    \/ child.kind = "exit" /\ ~MarkerInOutput

\* C12: once the verification subprocess has been run, the run has ended;
\* it has status 0 only when the standard output held the marker; and when
\* the subprocess exited non-zero, timed out, could not be started or wrote no
\* marker, the run has status 1, has printed no VENV_PYTHON= line and did not
\* go on to the report.
C12_VerificationOutcome ==
    Spawned("verify") =>
        /\ Done
        /\ child # NoChild
        /\ exit_code = 0 => MarkerInOutput
        /\ VerificationFailed =>
               /\ exit_code = 1
               /\ Last(steps) = "test_conn"
               /\ \A i \in DOMAIN stdout : ~IsVenvPythonLine(stdout[i])
        /\ ~VerificationFailed => exit_code = 0

\* the subprocess wrote the marker and then exited non-zero
C12_Witness ==
    /\ Spawned("verify")
    /\ child.kind = "exit"
    /\ child.rc # 0
    /\ MarkerInOutput
    /\ exit_code = 1

\* C13: no run ends by an exception that nothing catches: a run that has
\* ended left through sys.exit with status 0, 1 or 2, and a run that has not
\* ended is at one of its steps.
C13_NoUnhandledException ==
    /\ ~unhandled
    /\ Done => exit_code \in {0, 1, 2}
    /\ Running => pc \in PcValues

\* the run follows a run that ended with status 2 in the same working
\* directory, and the credential file of that directory now holds a credential
AfterNeedCredential ==
    /\ Running \/ Done
    /\ lastRun.exit_code = 2
    /\ user_cwd = lastRun.user_cwd
    /\ HasCredential(CredentialFile)

\* the SDK import probe of the run timed out and the install that followed
\* did not succeed
ReinstallFailed ==
    /\ SpawnedWith("sdk_probe", "timeout")
    /\ Spawned("sdk_install")
    /\ ~SpawnedWith("sdk_install", "ok")

\* C14 as stated: such a run does not end with status 2, constructs no
\* environment, has run the verification when it has ended, and has status 0
\* when the verification returned the marker.
C14_Original ==
    AfterNeedCredential =>
        /\ exit_code # 2
        /\ ~Spawned("venv_create")
        /\ Done => Spawned("verify")
        /\ (Done /\ MarkerReturned) => exit_code = 0

\* C14 (amended): such a run does not end with status 2, searches for no
\* interpreter and constructs no environment, and installs the SDK only after
\* its import probe timed out; when it has ended it has run the verification
\* and has status 0 exactly when the verification returned the marker, unless
\* the probe timed out and the install then failed, in which case it ended
\* with status 1 before the credential step.
C14_ReRun ==
    AfterNeedCredential =>
        /\ exit_code # 2
        /\ ~Spawned("find_python")
        /\ ~Spawned("venv_create")
        /\ Spawned("sdk_install") => SpawnedWith("sdk_probe", "timeout")
        /\ Done =>
               IF ReinstallFailed
               THEN exit_code = 1 /\ ~Stepped("check_env") /\ ~Spawned("verify")
               ELSE Spawned("verify") /\ (exit_code = 0 <=> MarkerReturned)

C14_Witness ==
    /\ AfterNeedCredential
    /\ Done
    /\ exit_code = 0
    /\ atStart.venvAt[T \o <<".venv">>] = "ready"
    /\ ~Spawned("sdk_install")

\* the steps of main and the subprocess calls of a run, in program order
StepOrder ==
    <<"ensure_venv", "upgrade_pip", "ensure_sdk", "ensure_dotenv", "check_env",
      "test_conn", "report">>
CallOrder ==
    <<"find_python", "venv_create", "sdk_probe", "sdk_install", "dotenv_probe",
      "dotenv_install", "verify">>

IsPrefix(s, t) == Len(s) <= Len(t) /\ SubSeq(t, 1, Len(s)) = s
PlaceIn(order, x) == CHOOSE i \in DOMAIN order : order[i] = x

\* the steps executed so far are an initial part of the fixed order and the
\* subprocess calls made so far follow the program order, none made twice
InFixedOrder ==
    /\ IsPrefix(steps, StepOrder)
    /\ \A i \in DOMAIN spawned : \E k \in DOMAIN CallOrder : CallOrder[k] = spawned[i].cmd
    /\ \A i, j \in DOMAIN spawned :
           i < j => PlaceIn(CallOrder, spawned[i].cmd) < PlaceIn(CallOrder, spawned[j].cmd)

\* the verification is started only after the credential check of the run
\* returned a key and with no failed SDK install in the run
VerifyAfterKey ==
    (pc = "test_conn" \/ Spawned("verify")) =>
        /\ Stepped("check_env")
        /\ has_key
        /\ api_key # <<>>
        /\ HasCredential(CredentialFile)
        /\ \A i \in DOMAIN spawned :
               spawned[i].cmd = "sdk_install" => spawned[i].out = "ok"

\* C15: the steps of a run are executed in the fixed order, each at most
\* once; the credential step either goes on to the verification or ends the
\* run with status 2, and is the only step with more than one way on besides
\* the fatal exits; the verification is started only after the credential
\* check returned a key and the SDK step did not fail.
C15_StepOrdering ==
    /\ InFixedOrder
    /\ VerifyAfterKey
    /\ (steps # <<>> /\ Last(steps) = "check_env") =>
           \/ pc = "test_conn" /\ exit_code = -1
           \/ Done /\ exit_code = 2

\* the status the other fatal exits of the provisioner pass to sys.exit
FatalStatus == 1

\* the run started with no environment directory and its search found no
\* acceptable interpreter
NoInterpreterRun ==
    /\ Running \/ Done
    /\ atStart.venvAt[T \o <<".venv">>] = "absent"
    /\ pyOut = NotFound

\* the error and the three per-platform hints are on stdout
RemediationPrinted ==
    /\ \E i \in DOMAIN stdout :
           stdout[i] = <<"ERROR: Python 3.10, 3.11, or 3.12 is required but not found.">>
    /\ \A hint \in {<<"  - macOS: brew install python@3.12">>,
                    <<"  - Ubuntu: sudo apt install python3.12">>,
                    <<"  - Windows: Download from python.org">>} :
           \E i \in DOMAIN stdout : stdout[i] = hint

\* the search was the only step: nothing was created, no later step ran, no
\* marker line was printed
StoppedAtSearch ==
    /\ Done
    /\ steps = <<"ensure_venv">>
    /\ spawned = <<[cmd |-> "find_python", out |-> "none"]>>
    /\ venvAt = atStart.venvAt
    /\ pkgsAt = atStart.pkgsAt
    /\ \A op \in fsops : op.op = "exists"
    /\ python_exe = <<>>
    /\ \A i \in DOMAIN stdout :
           ~IsMarkerLine(stdout[i]) /\ ~IsVenvPythonLine(stdout[i]) /\ ~IsCwdLine(stdout[i])

\* C16 as stated: such a run has ended at the search with the remediation
\* text, and its status is non-zero, not 2, and not the status of the other
\* fatal exits.
C16_Original ==
    NoInterpreterRun =>
        /\ StoppedAtSearch
        /\ RemediationPrinted
        /\ exit_code \notin {0, 2, FatalStatus}

\* C16 (amended): such a run has ended at the search with the remediation
\* text and with the status of every other fatal exit, 1.
C16_NoInterpreter ==
    NoInterpreterRun =>
        /\ StoppedAtSearch
        /\ RemediationPrinted
        /\ exit_code = FatalStatus

C16_Witness ==
    /\ NoInterpreterRun
    /\ Done
    /\ RemediationPrinted
    /\ exit_code = 1
    /\ venvAt[T \o <<".venv">>] = "absent"

\* C17: once step 2 of a run is done: when the run started with the
\* environment path holding a runnable interpreter, nothing was searched for
\* or constructed and the path is as it was; otherwise the interpreter search
\* was run (and, an interpreter found, the construction); and the interpreter
\* path the run carries to the later steps names an interpreter that exists.
C17_EnvironmentValidity ==
    /\ (Stepped("ensure_venv") /\ atStart.venvAt[T \o <<".venv">>] = "ready") =>
           /\ ~Spawned("find_python")
           /\ ~Spawned("venv_create")
           /\ venvAt = atStart.venvAt
    /\ (Stepped("ensure_venv") /\ atStart.venvAt[T \o <<".venv">>] # "ready") =>
           /\ Spawned("find_python")
           /\ SpawnedWith("find_python", "ok") => Spawned("venv_create")
    /\ python_exe # <<>> => venvAt[VenvOf(python_exe)] = "ready"

\* the text is part of a line the run printed
Forwarded(text) == \E i \in DOMAIN stdout : Contains(stdout[i], text)

\* C18: when the verification subprocess ran to its end and the verification
\* failed, what the subprocess wrote to its standard output and what it wrote
\* to its standard error are both in the output of the run, which has ended
\* with status 1.
C18_Passthrough ==
    (Spawned("verify") /\ child.kind = "exit" /\ VerificationFailed) =>
        /\ Done
        /\ exit_code = 1
        /\ child.err # <<>> => Forwarded(child.err)
        /\ child.out # <<>> => Forwarded(child.out)

\* C19: a run that has started ends, whatever its children do, with status
\* 0, 1 or 2; and on the way it executes its steps in the fixed order, none
\* of them twice.
C19_Termination ==
    /\ []InFixedOrder
    /\ [](Done => exit_code \in {0, 1, 2})
    /\ Running ~> Done

\* a run has ended in which two of the children outlived their time
C19_Witness ==
    /\ Done
    /\ SpawnedWith("sdk_probe", "timeout")
    /\ SpawnedWith("dotenv_probe", "timeout")
    /\ SpawnedWith("verify", "timeout")

\* the helper-dependency probe of the run failed and so did the install
HelperFailed ==
    /\ \E i \in DOMAIN spawned : spawned[i].cmd = "dotenv_probe" /\ spawned[i].out # "ok"
    /\ \E i \in DOMAIN spawned : spawned[i].cmd = "dotenv_install" /\ spawned[i].out # "ok"

HelperImportable == "dotenv" \in pkgsAt[T \o <<".venv">>]

\* the credential step gave what the file says: the key of its first
\* configuring line, or the request for a credential
CredentialResolved ==
    IF HasCredential(CredentialFile)
    THEN has_key /\ api_key = ValueOf(FirstGoodLine(CredentialFile)) /\ exit_code # 2
    ELSE ~has_key /\ Done /\ (CredentialFile.kind # "dir" => exit_code = 2)

\* C20 as stated: a run whose helper probe and install both failed resolves
\* the credential as any other run; its verification, once run, has failed
\* and the run has status 1; and a run has status 0 only with the helper
\* dependency importable in the environment.
C20_Original ==
    /\ (HelperFailed /\ Stepped("check_env")) => CredentialResolved
    /\ (HelperFailed /\ Spawned("verify")) => exit_code = 1
    /\ exit_code = 0 => HelperImportable

\* C20 (amended): the same, the verification having failed when the failed
\* install left the helper dependency not importable.
C20_HelperDependency ==
    /\ (HelperFailed /\ Stepped("check_env")) => CredentialResolved
    /\ (Spawned("verify") /\ ~HelperImportable) =>
           /\ exit_code = 1
           /\ ~MarkerInOutput
    /\ exit_code = 0 => HelperImportable

\* probe and install failed, the credential is valid and was found, and the
\* verification failed
C20_Witness ==
    /\ HelperFailed
    /\ ~HelperImportable
    /\ HasCredential(CredentialFile)
    /\ has_key
    /\ Spawned("verify")
    /\ child.kind = "exit"
    /\ exit_code = 1

----------------------------------------------------------------------------
(* setup_environment.main *)

SetupOrder == <<"setup_venv", "install_sdk", "check_api_key", "test_connection">>

SetupPrinted(line) == \E i \in DOMAIN stdout : stdout[i] = line

SetupComplete == SetupPrinted(<<"Environment setup complete!">>)

SetupInstalled == SpawnedWith("pip_install_sdk", "ok")

SetupKeyFound == check_api_key(environ, envFileAt[env_file_of(user_cwd)]).ok

SetupConnected == SetupPrinted(test_connection_lines("ok")[1])

\* C21: the setup-complete message is printed only by a process that runs
\* inside a virtual environment, whose SDK installation succeeded, that found
\* an API key and whose connection test succeeded, the four steps taken in
\* that order; a process that ended without the message has status 1 and
\* stopped at its first failing step, the later steps not executed; and a
\* process outside a virtual environment ends with status 1 after the first
\* step, whatever is or was created at <cwd>/.venv, having started no
\* installation.  (install_sdk waits for pip without a timeout: a process
\* whose pip never ends stays in step 2, prints no message and runs no later
\* step.)
C21_SetupGate ==
    /\ IsPrefix(steps, SetupOrder)
    /\ SetupComplete =>
           /\ is_venv
           /\ steps = SetupOrder
           /\ SetupInstalled
           /\ SetupKeyFound /\ has_key
           /\ SetupConnected
           /\ pc = "done" /\ exit_code = 0
    /\ (pc = "done" /\ ~SetupComplete) =>
           /\ exit_code = 1
           /\ Len(steps) = 1 => ~is_venv
           /\ Len(steps) = 2 => (is_venv /\ ~SetupInstalled)
           /\ Len(steps) = 3 => (is_venv /\ SetupInstalled /\ ~SetupKeyFound)
           /\ Len(steps) = 4 =>
                  (is_venv /\ SetupInstalled /\ SetupKeyFound /\ ~SetupConnected)
    /\ (pc = "done" /\ exit_code = 0) => SetupComplete
    /\ pc = "blocked" => (steps = SubSeq(SetupOrder, 1, 2) /\ ~SetupComplete)
    /\ (~is_venv /\ pc # "setup_venv") =>
           /\ pc = "done"
           /\ exit_code = 1
           /\ steps = <<"setup_venv">>
           /\ spawned = <<>>
           /\ ~SetupComplete

\* outside a virtual environment, the environment at <cwd>/.venv was just
\* created successfully, and the process has ended
C21_Witness ==
    /\ ~is_venv
    /\ pc = "done"
    /\ SetupPrinted(<<"Virtual environment created successfully">>)
    /\ venvAt[user_cwd \o <<".venv">>] = "ready"
    /\ python_exe = get_venv_python(user_cwd \o <<".venv">>)

----------------------------------------------------------------------------
(* The two credential checks *)

\* C22: with CARVER_API_KEY not in the environment of the process,
\* setup_environment.check_api_key and auto_init.check_env_file give the same
\* configured / not-configured verdict on every .env file; in particular a
\* file whose only CARVER_API_KEY line holds the placeholder or an empty
\* value is not configured for both.
C22_SameVerdict ==
    (envOut # NotChecked /\ environ = NoVar) =>
        /\ keyOut.ok <=> envOut.ok
        /\ (\A i \in DOMAIN envIn.lines :
               line_matches(envIn.lines[i]) =>
                   line_value(envIn.lines[i]) \in {<<>>, Placeholder})
               => (~keyOut.ok /\ ~envOut.ok)

----------------------------------------------------------------------------
(* query_templates.export_feed_entries *)

ExportCalled == expOut # NotExported

\* the default name, character by character: the feed name with every
\* upper-case letter lowered and every space an underscore, then the suffix
IsDefaultName(path, feed_name, ext) ==
    /\ Len(path) = Len(feed_name) + 2
    /\ \A i \in DOMAIN feed_name :
           path[i] = (CASE feed_name[i] = " " -> "_"
                        [] feed_name[i] = "A" -> "a"
                        [] OTHER -> feed_name[i])
    /\ path[Len(path) - 1] = "_entries."
    /\ path[Len(path)] = ext

\* an output path was given: not None and not the empty string
PathGiven == expIn.output_path \notin {NoPath, <<>>}

\* C23: export_feed_entries, its calls into the SDK returning: for format
\* 'csv' or 'json' it writes exactly one file, at output_path when one is
\* given and otherwise at the default name, and returns that path; for
\* 'dataframe' it writes no file and returns 'dataframe'; for any other
\* format it raises ValueError and writes no file.  A call that raises
\* returns nothing, and only a 'csv' or 'json' call that got as far as the
\* rendering leaves a file, at that same path.
C23_Export ==
    ExportCalled =>
        /\ (expIn.output_format \in {"csv", "json"} /\ expIn.sdk = "ok") =>
               /\ expOut.result = "returned"
               /\ expOut.files = {expOut.value}
               /\ PathGiven => expOut.value = expIn.output_path
               /\ ~PathGiven =>
                      IsDefaultName(expOut.value, expIn.feed_name, expIn.output_format)
        /\ (expIn.output_format = "dataframe" /\ expIn.sdk \in {"ok", "open"}) =>
               /\ expOut.result = "returned"
               /\ expOut.value = <<"dataframe">>
               /\ expOut.files = {}
        /\ (expIn.output_format \notin {"csv", "json", "dataframe"}
              /\ expIn.sdk # "engine") =>
               /\ expOut.result = "raised"
               /\ expOut.error = "ValueError"
               /\ expOut.files = {}
        /\ expIn.output_format \notin {"csv", "json"} => expOut.files = {}
        /\ expOut.result = "raised" =>
               /\ expOut.value = <<>>
               /\ Cardinality(expOut.files) <= 1
               /\ expOut.error = "ValueError" \/ expIn.sdk # "ok"

\* a feed name with an upper-case letter and a space was exported as json
\* without an output path, and the file is at the default name
C23_Witness ==
    /\ ExportCalled
    /\ expIn.feed_name = <<"A", " ">>
    /\ expIn.output_format = "json"
    /\ expIn.output_path = NoPath
    /\ expIn.sdk = "ok"
    /\ expOut.files = {<<"a", "_", "_entries.", "json">>}
    /\ expOut.value = <<"a", "_", "_entries.", "json">>

====
